---------------------------- MODULE Spec2Model ----------------------------
(***************************************************************************)
(* The duplex audio/conversation loop of googlesamples.assistant.__main__. *)
(*                                                                         *)
(* main() (src/googlesamples/assistant/__main__.py, lines 134-162) runs    *)
(* either the interactive loop (lines 136-144) or one batch turn (lines    *)
(* 146-162).  A turn wraps the audio source in iter_with_progress          *)
(* ("Recording"), hands it to assistant.converse, draws one event with     *)
(* next(), and writes the remaining events, wrapped in iter_with_progress  *)
(* ("Playing"), to the audio sink.                                         *)
(*                                                                         *)
(* audio_helpers (the audio source and sink) and embedded_assistant (the   *)
(* conversation stream) are imported by main() and are not part of the     *)
(* source at hand; they are modelled from their contracts in spec.md 4.1,  *)
(* 4.2 and 4.4.                                                            *)
(***************************************************************************)
EXTENDS Integers, Sequences, FiniteSets

\* ------------------------------------------------------------- bounds

\* Turns the interactive loop may start.
MaxTurns == 2
\* Chunks an audio source may produce in one turn.
MaxLen == 3
\* Events the conversation stream may hand out in one turn.
MaxIn == 3

\* Sizes (in bytes) of the chunks an audio source produces.
SrcChunks == {32, 64}
\* Sizes (in bytes) of the AudioData chunks the remote side sends.
InChunks == {50, 100}
\* The EndOfUtterance event (AudioData events are their chunk, a size > 0).
EndOfUtterance == 0

VARIABLES
    inputFile,   \* args.input_audio_file is set
    outputFile,  \* args.output_audio_file is set
    fileData,    \* the chunks held by the input file (<<>> without one)
    pc,          \* main()'s position
    turn,        \* turns started so far
    prompts,     \* operator prompts issued so far (line 138)
    error,       \* the exception that left main(), "none" without one
    inst,        \* the audio stream instances created so far
    src,         \* the instance the current turn reads from (0: none)
    snk,         \* the instance the current turn writes to (0: none)
    srcRest,     \* what the current file source has still to produce
    srcLog,      \* the chunks the current source has produced
    rec,         \* the generator iter_with_progress('Recording: ', ...)
    play,        \* the generator iter_with_progress('Playing ', ...)
    sendSt,      \* the sending side of the current converse call
    recvLog,     \* the events the current converse call has handed out
    discarded,   \* the events main() drew with next() and dropped
    s,           \* the loop variable of lines 142 / 159 (0: unset)
    written      \* the chunks written to the current sink

vars == <<inputFile, outputFile, fileData, pc, turn, prompts, error, inst,
          src, snk, srcRest, srcLog, rec, play, sendSt, recvLog, discarded,
          s, written>>

config == <<inputFile, outputFile, fileData>>

\* ------------------------------------------------------------ helpers

RECURSIVE SumSeq(_)
SumSeq(q) == IF q = <<>> THEN 0 ELSE Head(q) + SumSeq(Tail(q))

IsPrefix(a, b) == Len(a) <= Len(b) /\ a = SubSeq(b, 1, Len(a))

Last(q) == q[Len(q)]

RECURSIVE SeqsUpTo(_, _)
SeqsUpTo(S, n) ==
    IF n = 0 THEN {<<>>}
    ELSE LET shorter == SeqsUpTo(S, n - 1)
         IN  shorter \cup {Append(q, x) : q \in shorter, x \in S}

\* Fault variant of interactive: "and" in place of "or".
interactive_And == ~(inputFile /\ outputFile)

\* line 134
interactive == ~(inputFile \/ outputFile)

\* --------------------------------------------------- iter_with_progress

\* A generator object of iter_with_progress: st is where its frame stands
\* ("new": created, not started; "got": d bound by line 130; "upd": after
\* line 131; "susp": suspended at the yield of line 132; "done": returned;
\* "raised": left by an exception of the underlying sequence; "none": no
\* generator), bar the tqdm display of line 128, total its counter,
\* reports the totals it displayed, pulled what line 130 drew from gen,
\* yielded what line 132 handed to the consumer.
NoGen ==
    [st |-> "none", bar |-> "none", total |-> 0, reports |-> <<>>,
     pulled |-> <<>>, yielded |-> <<>>]

\* Fault variant of WNew: the progress counter is shared between calls,
\* so a new generator starts from the total of the "Recording" one.
WNew_Leaky ==
    [st |-> "new", bar |-> "none", total |-> rec.total, reports |-> <<>>,
     pulled |-> <<>>, yielded |-> <<>>]

\* Calling iter_with_progress(title, gen): a fresh generator, its body not
\* yet entered, so no tqdm yet.
WNew ==
    [st |-> "new", bar |-> "none", total |-> 0, reports |-> <<>>,
     pulled |-> <<>>, yielded |-> <<>>]

\* Fault variant of WCanResume: the generator reads ahead, drawing the next
\* chunk before it has yielded the one in hand.
WCanResume_ReadAhead(w) == w.st \in {"new", "susp", "upd"}

\* The consumer may ask the generator for its next element.
WCanResume(w) == w.st \in {"new", "susp"}

\* Lines 128-130: (on the first resume, the tqdm is created, then) the for
\* statement draws d from gen.
WGot(w, d) ==
    [w EXCEPT !.st = "got", !.bar = "open", !.pulled = Append(@, d)]

\* Fault variant of WEnd: the generator returns without closing the tqdm.
WEnd_NoClose(w) == [w EXCEPT !.st = "done"]

\* Line 130 finds gen exhausted: the with block ends, closing the tqdm,
\* and the generator returns.
WEnd(w) == [w EXCEPT !.st = "done", !.bar = "closed"]

\* Line 130: gen raises; the with block closes the tqdm on the way out.
WRaise(w) == [w EXCEPT !.st = "raised", !.bar = "closed"]

\* Fault variant of WUpdate: the display is set to the size of the last
\* chunk instead of being advanced by it.
WUpdate_NoAccumulate(w) ==
    [w EXCEPT !.st = "upd",
              !.total = Last(w.pulled),
              !.reports = Append(@, Last(w.pulled))]

\* Line 131: t.update(len(d)).
WUpdate(w) ==
    [w EXCEPT !.st = "upd",
              !.total = @ + Last(w.pulled),
              !.reports = Append(@, w.total + Last(w.pulled))]

\* Fault variant of WYield: the generator goes on to the next chunk
\* without handing this one to its consumer.
WYield_Skip(w) == [w EXCEPT !.st = "susp"]

\* Line 132: yield d.
WYield(w) ==
    [w EXCEPT !.st = "susp", !.yielded = Append(@, Last(w.pulled))]

\* ------------------------------------------------------- audio streams

\* A stream instance of audio_helpers: open until closed, closes counts the
\* close() calls, born the turn that created it, users the turns that
\* read, wrote or closed it, late whether it was read or written after its
\* close.
NewInst(kind) ==
    [kind |-> kind, open |-> TRUE, closes |-> 0, born |-> turn + 1,
     users |-> {}, late |-> FALSE]

\* A read or a write on instance i.
Used(i) ==
    [inst EXCEPT ![i].users = @ \cup {turn},
                 ![i].late = @ \/ ~inst[i].open]

\* close() on instance i.
Closed(i) ==
    [inst EXCEPT ![i].open = FALSE, ![i].closes = @ + 1,
                 ![i].users = @ \cup {turn}]

\* Fault variant of Raise: the exception is swallowed and the while loop
\* of line 136 goes on to a new turn.
Raise_Continue(e) == pc' = "open" /\ error' = e

\* An exception leaves main(): no statement of lines 135-162 catches it and
\* none runs on the way out.
Raise(e) == pc' = "crashed" /\ error' = e

\* The state a turn starts from: nothing sent, received or written yet.
FreshTurn ==
    /\ srcLog' = <<>>
    /\ rec' = NoGen
    /\ play' = NoGen
    /\ sendSt' = "none"
    /\ recvLog' = <<>>
    /\ discarded' = <<>>
    /\ s' = 0
    /\ written' = <<>>

Init ==
    /\ inputFile \in BOOLEAN
    /\ outputFile \in BOOLEAN
    /\ fileData \in (IF inputFile THEN SeqsUpTo(SrcChunks, MaxLen) ELSE {<<>>})
    /\ pc = "open"
    /\ turn = 0
    /\ prompts = 0
    /\ error = "none"
    /\ inst = <<>>
    /\ src = 0
    /\ snk = 0
    /\ srcRest = <<>>
    /\ srcLog = <<>>
    /\ rec = NoGen
    /\ play = NoGen
    /\ sendSt = "none"
    /\ recvLog = <<>>
    /\ discarded = <<>>
    /\ s = 0
    /\ written = <<>>

\* ------------------------------------------------------------- main()

\* Line 137: audio_stream = audio_helpers.PyAudioStream(), one instance
\* that is the turn's source and its sink.
OpenInteractive ==
    /\ pc = "open"
    /\ interactive
    /\ turn < MaxTurns
    /\ inst' = Append(inst, NewInst("device"))
    /\ src' = Len(inst) + 1
    /\ snk' = Len(inst) + 1
    /\ srcRest' = <<>>
    /\ turn' = turn + 1
    /\ pc' = "prompt"
    /\ FreshTurn
    /\ UNCHANGED <<config, prompts, error>>

\* Fault variant of Prompt: the turn goes on without prompting.
Prompt_Silent ==
    /\ pc = "prompt"
    /\ pc' = "converse"
    /\ UNCHANGED <<config, turn, prompts, error, inst, src, snk, srcRest,
                   srcLog, rec, play, sendSt, recvLog, discarded, s, written>>

\* Line 138: input('Press Enter to record a new query').
Prompt ==
    /\ pc = "prompt"
    /\ prompts' = prompts + 1
    /\ pc' = "converse"
    /\ UNCHANGED <<config, turn, error, inst, src, snk, srcRest, srcLog,
                   rec, play, sendSt, recvLog, discarded, s, written>>

\* Lines 146-155: the batch turn's input_stream and output_stream.
OpenBatch ==
    /\ pc = "open"
    /\ ~interactive
    /\ turn = 0
    /\ inst' = <<NewInst(IF inputFile THEN "file" ELSE "device"),
                 NewInst(IF outputFile THEN "file" ELSE "device")>>
    /\ src' = 1
    /\ snk' = 2
    /\ srcRest' = fileData
    /\ turn' = 1
    /\ pc' = "converse"
    /\ FreshTurn
    /\ UNCHANGED <<config, prompts, error>>

\* Lines 139-140 / 156-157: the source is wrapped in the "Recording"
\* observer and handed to assistant.converse, which starts sending.
Converse ==
    /\ pc = "converse"
    /\ rec' = WNew
    /\ sendSt' = "sending"
    /\ pc' = "boundary"
    /\ UNCHANGED <<config, turn, prompts, error, inst, src, snk, srcRest,
                   srcLog, play, recvLog, discarded, s, written>>

\* ------------------------------------- the audio source (spec.md 4.1)

\* The current source is a file (SampleRateLimiter over the input file),
\* not a capture device.
SrcIsFile == inst[src].kind = "file"

\* The chunks a read of the source may return now: the file's next chunk,
\* or whatever a capture device records (a device never runs dry; the
\* model stops it after MaxLen chunks).
SrcNext ==
    IF SrcIsFile
    THEN (IF srcRest = <<>> THEN {} ELSE {Head(srcRest)})
    ELSE (IF Len(srcLog) < MaxLen THEN SrcChunks ELSE {})

\* A read finds the source exhausted: a file at its end.
SrcAtEnd == SrcIsFile /\ srcRest = <<>>

\* ------------------------------- the conversation stream (spec.md 4.4)

\* converse() is pulling its outbound argument.
Sending == sendSt = "sending"

\* Fault variant of RecvReady: events are handed out while the outbound
\* sequence is still being pulled.
RecvReady_Early == TRUE

\* The first inbound event can be drawn: the outbound side is finished
\* (drained, closed by the remote side, or failed).
RecvReady == sendSt # "sending"

\* The call failed while sending; the failure shows when the next event is
\* requested.
SendFailed == sendSt \in {"ioerror", "streamerror"}

\* converse() asks the "Recording" generator for the next chunk, which
\* reads the source (lines 128-130).
SendPull ==
    /\ Sending
    /\ WCanResume(rec)
    /\ \/ \E d \in SrcNext :
            /\ rec' = WGot(rec, d)
            /\ srcLog' = Append(srcLog, d)
            /\ srcRest' = IF SrcIsFile THEN Tail(srcRest) ELSE srcRest
            /\ sendSt' = sendSt
            /\ inst' = Used(src)
       \/ /\ SrcAtEnd
          /\ rec' = WEnd(rec)
          /\ sendSt' = "closed"
          /\ inst' = Used(src)
          /\ UNCHANGED <<srcLog, srcRest>>
       \/ /\ rec' = WRaise(rec)
          /\ sendSt' = "ioerror"
          /\ inst' = Used(src)
          /\ UNCHANGED <<srcLog, srcRest>>
    /\ UNCHANGED <<config, pc, turn, prompts, error, src, snk, play,
                   recvLog, discarded, s, written>>

\* Line 131 of the "Recording" generator.
RecUpdate ==
    /\ rec.st = "got"
    /\ rec' = WUpdate(rec)
    /\ UNCHANGED <<config, pc, turn, prompts, error, inst, src, snk,
                   srcRest, srcLog, play, sendSt, recvLog, discarded, s,
                   written>>

\* Line 132 of the "Recording" generator: the chunk reaches converse().
RecYield ==
    /\ rec.st = "upd"
    /\ rec' = WYield(rec)
    /\ UNCHANGED <<config, pc, turn, prompts, error, inst, src, snk,
                   srcRest, srcLog, play, sendSt, recvLog, discarded, s,
                   written>>

\* The stream closes its sending side before the source is exhausted (the
\* remote side has heard the end of the utterance).
SendClose ==
    /\ Sending
    /\ WCanResume(rec)
    /\ sendSt' = "closed"
    /\ UNCHANGED <<config, pc, turn, prompts, error, inst, src, snk,
                   srcRest, srcLog, rec, play, recvLog, discarded, s,
                   written>>

\* The network call fails while sending (StreamError).
SendFail ==
    /\ Sending
    /\ WCanResume(rec)
    /\ sendSt' = "streamerror"
    /\ UNCHANGED <<config, pc, turn, prompts, error, inst, src, snk,
                   srcRest, srcLog, rec, play, recvLog, discarded, s,
                   written>>

\* ------------------------------------------------- main(), continued

\* Fault variant of AfterNext: the first event is played like the others.
AfterNext_Write(e) ==
    /\ discarded' = Append(discarded, e)
    /\ play' = WNew
    /\ written' = Append(written, e)
    /\ pc' = "play"
    /\ error' = error

\* Lines 141-142 / 158-159, next() having returned e: the value is dropped,
\* whatever it is, and the "Playing" generator is created over the rest.
AfterNext(e) ==
    /\ discarded' = Append(discarded, e)
    /\ play' = WNew
    /\ written' = written
    /\ pc' = "play"
    /\ error' = error

\* Line 141 / 158: next(response_samples).
Boundary ==
    /\ pc = "boundary"
    /\ RecvReady
    /\ \/ \E e \in {EndOfUtterance} \cup InChunks :
            /\ ~SendFailed
            /\ recvLog' = Append(recvLog, e)
            /\ AfterNext(e)
       \/ /\ ~SendFailed
          /\ Raise("StopIteration")
          /\ UNCHANGED <<recvLog, discarded, play, written>>
       \/ /\ sendSt # "ioerror"
          /\ Raise("StreamError")
          /\ UNCHANGED <<recvLog, discarded, play, written>>
       \/ /\ sendSt = "ioerror"
          /\ Raise("IOError")
          /\ UNCHANGED <<recvLog, discarded, play, written>>
    /\ UNCHANGED <<config, turn, prompts, inst, src, snk, srcRest, srcLog,
                   rec, sendSt, s>>

\* Fault variant of PlayPull: the next event is drawn while the write of
\* the previous chunk is still pending.
PlayPull_Eager ==
    /\ pc \in {"play", "write"}
    /\ WCanResume(play)
    /\ \/ \E c \in InChunks :
            /\ Len(recvLog) < MaxIn
            /\ play' = WGot(play, c)
            /\ recvLog' = Append(recvLog, c)
            /\ UNCHANGED <<pc, error>>
       \/ /\ play' = WEnd(play)
          /\ pc' = "close"
          /\ UNCHANGED <<recvLog, error>>
       \/ /\ play' = WRaise(play)
          /\ Raise("StreamError")
          /\ UNCHANGED recvLog
    /\ UNCHANGED <<config, turn, prompts, inst, src, snk, srcRest, srcLog,
                   rec, sendSt, discarded, s, written>>

\* Line 142 / 159: the for statement asks the "Playing" generator for the
\* next element, which draws the next event of the stream (lines 128-130).
PlayPull ==
    /\ pc = "play"
    /\ WCanResume(play)
    /\ \/ \E c \in InChunks :
            /\ Len(recvLog) < MaxIn
            /\ play' = WGot(play, c)
            /\ recvLog' = Append(recvLog, c)
            /\ UNCHANGED <<pc, error>>
       \/ /\ play' = WEnd(play)
          /\ pc' = "close"
          /\ UNCHANGED <<recvLog, error>>
       \/ /\ play' = WRaise(play)
          /\ Raise("StreamError")
          /\ UNCHANGED recvLog
    /\ UNCHANGED <<config, turn, prompts, inst, src, snk, srcRest, srcLog,
                   rec, sendSt, discarded, s, written>>

\* Line 131 of the "Playing" generator.
PlayUpdate ==
    /\ pc = "play"
    /\ play.st = "got"
    /\ play' = WUpdate(play)
    /\ UNCHANGED <<config, pc, turn, prompts, error, inst, src, snk,
                   srcRest, srcLog, rec, sendSt, recvLog, discarded, s,
                   written>>

\* Fault variant of PlayYield: s keeps the first chunk of the response.
PlayYield_Stale ==
    /\ pc = "play"
    /\ play.st = "upd"
    /\ play' = WYield(play)
    /\ s' = Head(play'.yielded)
    /\ pc' = "write"
    /\ UNCHANGED <<config, turn, prompts, error, inst, src, snk, srcRest,
                   srcLog, rec, sendSt, recvLog, discarded, written>>

\* Line 132 of the "Playing" generator: s is bound to the chunk.
PlayYield ==
    /\ pc = "play"
    /\ play.st = "upd"
    /\ play' = WYield(play)
    /\ s' = Last(play'.yielded)
    /\ pc' = "write"
    /\ UNCHANGED <<config, turn, prompts, error, inst, src, snk, srcRest,
                   srcLog, rec, sendSt, recvLog, discarded, written>>

\* Line 143 / 160: the sink's write(s), which returns or raises IOError.
Write ==
    /\ pc = "write"
    /\ inst' = Used(snk)
    /\ \/ /\ written' = Append(written, s)
          /\ pc' = "play"
          /\ error' = error
       \/ /\ Raise("IOError")
          /\ written' = written
    /\ UNCHANGED <<config, turn, prompts, src, snk, srcRest, srcLog, rec,
                   play, sendSt, recvLog, discarded, s>>

\* Fault variant of CloseInteractive: the loop starts over without closing
\* the turn's audio stream.
CloseInteractive_Skip ==
    /\ pc = "close"
    /\ interactive
    /\ pc' = "open"
    /\ UNCHANGED <<config, turn, prompts, error, inst, src, snk, srcRest,
                   srcLog, rec, play, sendSt, recvLog, discarded, s, written>>

\* Line 144: audio_stream.close(), then the while loop starts over.
CloseInteractive ==
    /\ pc = "close"
    /\ interactive
    /\ inst' = Closed(src)
    /\ pc' = "open"
    /\ UNCHANGED <<config, turn, prompts, error, src, snk, srcRest, srcLog,
                   rec, play, sendSt, recvLog, discarded, s, written>>

\* Fault variant of CloseInput: the output stream is closed first.
CloseInput_SinkFirst ==
    /\ pc = "close"
    /\ ~interactive
    /\ inst' = Closed(snk)
    /\ pc' = "closeOut"
    /\ UNCHANGED <<config, turn, prompts, error, src, snk, srcRest, srcLog,
                   rec, play, sendSt, recvLog, discarded, s, written>>

\* Line 161: input_stream.close().
CloseInput ==
    /\ pc = "close"
    /\ ~interactive
    /\ inst' = Closed(src)
    /\ pc' = "closeOut"
    /\ UNCHANGED <<config, turn, prompts, error, src, snk, srcRest, srcLog,
                   rec, play, sendSt, recvLog, discarded, s, written>>

\* Fault variant of CloseOutput: input_stream is closed a second time in
\* place of output_stream.
CloseOutput_Wrong ==
    /\ pc = "closeOut"
    /\ inst' = Closed(src)
    /\ pc' = "done"
    /\ UNCHANGED <<config, turn, prompts, error, src, snk, srcRest, srcLog,
                   rec, play, sendSt, recvLog, discarded, s, written>>

\* Fault variant of CloseOutput: the batch turn falls back to the top of a
\* loop instead of returning.
CloseOutput_Loop ==
    /\ pc = "closeOut"
    /\ inst' = Closed(snk)
    /\ pc' = "open"
    /\ UNCHANGED <<config, turn, prompts, error, src, snk, srcRest, srcLog,
                   rec, play, sendSt, recvLog, discarded, s, written>>

\* Line 162: output_stream.close(); main() returns.
CloseOutput ==
    /\ pc = "closeOut"
    /\ inst' = Closed(snk)
    /\ pc' = "done"
    /\ UNCHANGED <<config, turn, prompts, error, src, snk, srcRest, srcLog,
                   rec, play, sendSt, recvLog, discarded, s, written>>

Next ==
    \/ OpenInteractive
    \/ Prompt
    \/ OpenBatch
    \/ Converse
    \/ SendPull
    \/ RecUpdate
    \/ RecYield
    \/ SendClose
    \/ SendFail
    \/ Boundary
    \/ PlayPull
    \/ PlayUpdate
    \/ PlayYield
    \/ Write
    \/ CloseInteractive
    \/ CloseInput
    \/ CloseOutput

Spec == Init /\ [][Next]_vars


\* main() runs to completion whenever the audio streams and the remote
\* side respond: a blocking read, send, receive or write returns (or
\* raises) once its counterpart acts.
FairSpec == Spec /\ WF_vars(Next)

\* ------------------------------------------------------------- claims

\* The source and the sink of the current turn are both closed.
BothClosed == ~inst[src].open /\ ~inst[snk].open

\* What the "Playing" generator wraps: the events after the first.
Response == IF recvLog = <<>> THEN <<>> ELSE Tail(recvLog)

\* The inbound sequence is exhausted and every chunk of it dealt with.
PlayedOut == play.st = "done"

\* C1: whenever an error has left main(), the turn's AudioSource and its
\* AudioSink are both closed.
C1_ClosedBeforeErrorReported == error # "none" => BothClosed

\* C2: a first inbound event that is not EndOfUtterance aborts the turn
\* with ProtocolViolation; the loop never goes on to Playing.
C2_ProtocolViolationAborts ==
    (discarded # <<>> /\ discarded[1] # EndOfUtterance)
        => (pc = "crashed" /\ error = "ProtocolViolation")

\* C3: the loop draws exactly one event, the first of the stream, before
\* the first sink write; that event is dropped and never written, and what
\* is written are the events after it.
C3_BoundaryBeforeWrites ==
    /\ Len(discarded) <= 1
    /\ IsPrefix(discarded, recvLog)
    /\ written # <<>> => Len(discarded) = 1
    /\ IsPrefix(written, Response)
    /\ Len(discarded) + Len(play.pulled) = Len(recvLog)
    /\ pc \in {"play", "write", "close", "closeOut", "done"}
           => Len(discarded) = 1

C3_Witness ==
    /\ pc = "done"
    /\ discarded = <<EndOfUtterance>>
    /\ Len(written) = 2

\* C4: when the inbound sequence [EndOfUtterance, AudioData(c1), ...,
\* AudioData(cn)] is exhausted, the sink has been written exactly
\* [c1, ..., cn].
C4_PlaybackOrderPreserved ==
    (PlayedOut /\ discarded = <<EndOfUtterance>>) => written = Response

C4_Witness ==
    /\ pc = "done"
    /\ recvLog = <<EndOfUtterance, 100, 50>>
    /\ written = <<100, 50>>
    /\ SumSeq(written) = 150

\* C5: what converse() has pulled from its outbound argument is what the
\* AudioSource has produced, in order, without loss or duplication (at
\* most the chunk being handed over is missing), and a file source that
\* was drained was delivered whole.
C5_TransmitOrderPreserved ==
    /\ IsPrefix(rec.yielded, srcLog)
    /\ Len(srcLog) - Len(rec.yielded) <= 1
    /\ rec.st \in {"susp", "done"} => rec.yielded = srcLog
    /\ (rec.st = "done" /\ inputFile) => rec.yielded = fileData

C5_Witness ==
    /\ rec.st = "done"
    /\ fileData = <<64, 64, 32>>
    /\ rec.yielded = <<64, 64, 32>>

\* Observer transparency of one generator w over the sequence under.
Transparent(w, under) ==
    /\ IsPrefix(w.yielded, w.pulled)
    /\ IsPrefix(w.pulled, under)
    /\ Len(w.yielded) <= Len(w.reports)
    /\ Len(w.reports) <= Len(w.pulled)
    /\ \A k \in 1..Len(w.reports) :
          /\ w.reports[k] = SumSeq(SubSeq(under, 1, k))
          /\ k > 1 => w.reports[k] >= w.reports[k - 1]
    /\ w.total = SumSeq(SubSeq(under, 1, Len(w.reports)))
    /\ w.st = "done" =>
          /\ w.yielded = under
          /\ w.total = SumSeq(under)

\* C6: iter_with_progress yields the chunks of the wrapped sequence
\* unchanged and in order, reports the running total of chunk k before it
\* yields chunk k, never reports a smaller total than before, and ends at
\* the sum of all sizes.
C6_ObserverTransparency ==
    /\ Transparent(rec, srcLog)
    /\ Transparent(play, Response)

C6_Witness ==
    /\ rec.st = "done"
    /\ rec.reports = <<64, 128, 160>>
    /\ play.st = "done"
    /\ play.reports = <<100, 150>>

\* C7: a StreamError right after EndOfUtterance leaves the sink unwritten,
\* the source and the sink closed, and the error with the caller.
C7_StreamErrorAfterBoundary ==
    (error = "StreamError" /\ discarded = <<EndOfUtterance>>
        /\ play.pulled = <<>>)
        => (written = <<>> /\ BothClosed /\ pc = "crashed")

\* C8: once the loop has drawn an inbound event, the stream has closed its
\* sending side, no outbound chunk is in flight, and nothing is pulled
\* from the outbound sequence any more.
C8_DrainedBeforeInbound ==
    recvLog # <<>> =>
        /\ sendSt = "closed"
        /\ rec.yielded = srcLog
        /\ rec.st \in {"new", "susp", "done"}
        /\ rec.st = "done" => srcRest = <<>>

C8_Witness ==
    /\ recvLog # <<>>
    /\ rec.st = "done"
    /\ Len(rec.yielded) = 2

C10_ErrorEndsSession ==
    [][error # "none" =>
          (turn' = turn /\ prompts' = prompts /\ error' = error)]_vars

C10_Witness ==
    /\ interactive
    /\ error # "none"
    /\ turn < MaxTurns

\* The current turn has reached Closed: main() is past the close() calls
\* of lines 144 / 161-162.
TurnClosed ==
    \/ pc = "done"
    \/ interactive /\ pc = "open" /\ turn > 0

\* C11: the sink is never closed while the source is open (source first),
\* nothing is closed before the inbound sequence is exhausted and its last
\* chunk written, and a completed turn has both closed.
C11_CloseOrder ==
    turn > 0 =>
        /\ ~inst[snk].open => ~inst[src].open
        /\ (~inst[src].open \/ ~inst[snk].open)
              => (PlayedOut /\ written = Response)
        /\ TurnClosed => BothClosed
        /\ pc = "closeOut" => (~inst[src].open /\ inst[snk].open)

C11_Witness ==
    /\ pc = "closeOut"
    /\ ~inst[src].open
    /\ inst[snk].open
    /\ Len(written) = 2

OneStreamPerTurn ==
    /\ Len(inst) = turn
    /\ \A i \in DOMAIN inst :
          /\ inst[i].born = i
          /\ inst[i].users \subseteq {i}
          /\ (i < turn \/ TurnClosed) => (~inst[i].open /\ inst[i].closes = 1)

\* Both progress counters of a turn start at zero and count this turn's
\* bytes only.
CountersFresh ==
    /\ rec.st \in {"none", "new"} => (rec.total = 0 /\ rec.reports = <<>>)
    /\ play.st \in {"none", "new"} => (play.total = 0 /\ play.reports = <<>>)
    /\ rec.total = SumSeq(SubSeq(srcLog, 1, Len(rec.reports)))
    /\ play.total = SumSeq(SubSeq(Response, 1, Len(play.reports)))

\* C13 as stated: two interactive turns create and close two independent
\* streams, the source and the sink of a turn being distinct instances, and
\* the progress counters start at zero in each turn.
C13_DistinctSourceAndSink ==
    (interactive /\ turn > 0) =>
        (OneStreamPerTurn /\ CountersFresh /\ src # snk)

\* C13 as amended: each interactive turn creates and closes one device
\* stream of its own, which is both the source and the sink of that turn
\* and is not reused by the next turn; the progress counters start at zero
\* in each turn.
C13_IndependentTurns ==
    (interactive /\ turn > 0) =>
        (OneStreamPerTurn /\ CountersFresh /\ src = snk)

C13_Witness ==
    /\ interactive
    /\ turn = 2
    /\ inst[1].closes = 1
    /\ inst[1].users = {1}
    /\ rec.st = "new"
    /\ rec.total = 0

\* C14: in interactive mode each turn issues exactly one prompt, and
\* before it is acknowledged converse is not called and the source is not
\* read.
C14_PromptBeforeSending ==
    interactive =>
        /\ prompts = (IF pc = "prompt" THEN turn - 1 ELSE turn)
        /\ pc = "prompt" =>
              /\ sendSt = "none"
              /\ rec = NoGen
              /\ srcLog = <<>>
              /\ inst[src].users = {}
        /\ (sendSt # "none" \/ srcLog # <<>>) => prompts = turn

C14_Witness ==
    /\ interactive
    /\ turn = 2
    /\ prompts = 2
    /\ srcLog # <<>>

\* The sequence a generator wraps has terminated (exhausted or raised) if
\* and only if the generator has terminated, and then, and only then, its
\* display is finalized.
Finalized(w) ==
    /\ w.st \in {"done", "raised"} <=> w.bar = "closed"
    /\ w.st \in {"got", "upd", "susp"} <=> w.bar = "open"
    /\ w.st \in {"none", "new"} <=> w.bar = "none"

\* C15 as stated: both progress displays of a turn are finalized when the
\* turn reaches Closed, whether or not the stream pulled the outbound
\* sequence to its end.
C15_DisplaysFinalizedAtClosed ==
    /\ Finalized(rec)
    /\ Finalized(play)
    /\ TurnClosed => (rec.bar = "closed" /\ play.bar = "closed")

\* C15 as amended: termination of the wrapped sequence terminates the
\* generator and finalizes its display; when the turn reaches Closed the
\* "Playing" display is finalized, and the "Recording" display is
\* finalized exactly if the source was read to its end; a "Recording"
\* generator the stream stopped pulling stays suspended, its display (if
\* it has one) open.
C15_DisplaysFinalizedOnTermination ==
    /\ Finalized(rec)
    /\ Finalized(play)
    /\ rec.st = "done" => (inputFile /\ srcRest = <<>>)
    /\ TurnClosed =>
          /\ play.bar = "closed"
          /\ rec.st \in {"new", "susp", "done"}
          /\ rec.bar = "closed" <=> rec.st = "done"

C15_Witness ==
    /\ TurnClosed
    /\ rec.st = "susp"
    /\ rec.bar = "open"
    /\ play.bar = "closed"
    /\ srcRest # <<>>

\* C16: at most one inbound chunk is drawn and not yet written, and an
\* event is received only when every chunk drawn before it has been
\* written, so not while a write is pending.
C16_Backpressure ==
    /\ [](/\ Len(play.pulled) - Len(written) \in {0, 1}
          /\ IsPrefix(written, play.pulled)
          /\ pc = "write" => Len(play.pulled) = Len(written) + 1)
    /\ [][Len(recvLog') > Len(recvLog) =>
             (pc # "write" /\ Len(play.pulled) = Len(written))]_vars

C16_Witness ==
    /\ pc = "write"
    /\ Len(play.pulled) = 2
    /\ Len(written) = 1

\* One generator keeps at most the chunk in hand.
NoBuffer(w) ==
    /\ IsPrefix(w.yielded, w.pulled)
    /\ Len(w.pulled) - Len(w.yielded) \in {0, 1}
    /\ WCanResume(w) => w.pulled = w.yielded

\* C17: iter_with_progress holds at most one chunk that it has pulled and
\* not yet yielded, and pulls the next one only when everything pulled has
\* been yielded and the consumer asks for more.
C17_PassThrough ==
    /\ [](NoBuffer(rec) /\ NoBuffer(play))
    /\ [][/\ Len(rec'.pulled) > Len(rec.pulled) =>
                (WCanResume(rec) /\ rec.pulled = rec.yielded)
          /\ Len(play'.pulled) > Len(play.pulled) =>
                (WCanResume(play) /\ play.pulled = play.yielded)]_vars

C17_Witness ==
    /\ rec.st = "got"
    /\ Len(rec.pulled) = 2
    /\ Len(rec.yielded) = 1

\* C18: no stream instance is closed twice, none is read or written after
\* its close, a completed turn has closed each of its instances once, and
\* in interactive mode the close follows the last playback write.
C18_ClosedOnce ==
    /\ \A i \in DOMAIN inst :
          /\ inst[i].closes <= 1
          /\ inst[i].open <=> inst[i].closes = 0
          /\ ~inst[i].late
    /\ (TurnClosed /\ error = "none") =>
          (inst[src].closes = 1 /\ inst[snk].closes = 1)
    /\ (interactive /\ turn > 0 /\ ~inst[snk].open) =>
          (PlayedOut /\ written = Response /\ pc = "open")

C18_Witness ==
    /\ interactive
    /\ pc = "open"
    /\ turn = 2
    /\ inst[1].closes = 1
    /\ inst[2].closes = 1
    /\ Len(written) = 2

\* C19: the interactive branch runs exactly when no file is configured;
\* the batch branch has two distinct instances, a file-backed one for each
\* side that has a file and a device stream for each side that has none.
C19_ModeSelection ==
    turn > 0 =>
        IF ~inputFile /\ ~outputFile
        THEN /\ src = snk
             /\ inst[src].kind = "device"
             /\ prompts > 0 \/ pc = "prompt"
        ELSE /\ src # snk
             /\ Len(inst) = 2
             /\ prompts = 0
             /\ inst[src].kind = (IF inputFile THEN "file" ELSE "device")
             /\ inst[snk].kind = (IF outputFile THEN "file" ELSE "device")
             /\ "file" \in {inst[src].kind, inst[snk].kind}

C19_Witness ==
    /\ inputFile
    /\ ~outputFile
    /\ pc = "done"
    /\ inst[src].kind = "file"
    /\ inst[snk].kind = "device"
    /\ src # snk

=============================================================================
